---- MODULE Spec2Model ----
(***************************************************************************)
(* Model of src/main.py: a Streamlit script that loads an uploaded CSV     *)
(* into a dataframe, registers five read-only analysis tools with a pair   *)
(* of autogen agents, and keeps a conversation history in the session      *)
(* state.  Streamlit runs the script from the top on every UI event; the   *)
(* session state outlives the runs.                                        *)
(*                                                                         *)
(* Text is modelled as a sequence of atoms.  An atom is one character, or  *)
(* a literal fragment of a format string of the source; the fragments hold *)
(* no part of the termination token.  Concatenation is \o.                 *)
(***************************************************************************)
EXTENDS Integers, Sequences, FiniteSets, TLC

VARIABLES
    pc,             \* position of the running script, "idle" between runs
    has_file,       \* uploaded_file is not None
    uploaded,       \* the content of the uploaded file
    user_query,     \* the value st.chat_input returns in this run
    load_no,        \* which call of load_data is running: line 32 or 43
    attempt,        \* load_data's loop variable
    load_log,       \* reads and sleeps of the running call of load_data
    load_result,    \* "running", "ok" or "raised" for that call
    df,             \* the dataframe the tools read
    session_keys,   \* the keys present in st.session_state
    conversation_history, \* st.session_state.conversation_history
    append_calls,   \* every call of add_to_history so far, in call order
    hist_at_submit, \* conversation_history when the current query arrived
    prompt,         \* the message passed to initiate_chat
    chat_calls,     \* calls of initiate_chat made for the current query
    turns_taken,    \* messages of the responder in the current exchange
    last_msg,       \* the last message the requester received
    tool_results,   \* the tool invocations of the current exchange
    summary,        \* result.summary of the finished exchange
    chat_ready,     \* the last run rendered st.chat_input
    ui              \* what the last run left on the page

vars == <<pc, has_file, uploaded, user_query, load_no, attempt, load_log,
          load_result, df, session_keys, conversation_history, append_calls,
          hist_at_submit, prompt, chat_calls, turns_taken, last_msg,
          tool_results, summary, chat_ready, ui>>

-----------------------------------------------------------------------------
(* Bounds of the model *)

MaxQueries == 2

MaxTurns == 2

-----------------------------------------------------------------------------
(* Text *)

TERMINATE == <<"T", "E", "R", "M", "I", "N", "A", "T", "E">>

NoText == <<>>

RECURSIVE str_contains(_, _)
str_contains(hay, needle) ==
    IF Len(needle) > Len(hay) THEN FALSE
    ELSE IF SubSeq(hay, 1, Len(needle)) = needle THEN TRUE
    ELSE str_contains(Tail(hay), needle)

-----------------------------------------------------------------------------
(* Datasets.  A cell is <<>> (missing) or <<v>>.  *)

ColA == <<"a">>
ColB == <<"b">>
ColZ == <<"z", "z">>

ColumnNames == {ColA, ColB, ColZ}

ColumnPairs == {<<ColA, ColB>>, <<ColB, ColA>>, <<ColB, ColB>>,
                <<ColA, ColZ>>, <<ColZ, ColA>>, <<ColZ, ColZ>>}

DF1 == [columns |-> <<ColA, ColB>>,
        dtype   |-> <<"int64", "float64">>,
        cells   |-> << <<<<1>>, <<2>>, <<3>>>>, <<<<2>>, <<>>, <<6>>>> >>]

DF2 == [columns |-> <<ColB>>,
        dtype   |-> <<"object">>,
        cells   |-> << <<<<7>>, <<7>>, <<>>>> >>]

NoData == [columns |-> <<>>, dtype |-> <<>>, cells |-> <<>>]

Datasets == {DF1, DF2}

InColumns(name, d) == \E i \in 1..Len(d.columns) : d.columns[i] = name

ColIndex(name, d) == CHOOSE i \in 1..Len(d.columns) : d.columns[i] = name

NonNull(cells) == SelectSeq(cells, LAMBDA c : c # <<>>)

RECURSIVE SumCells(_)
SumCells(cells) ==
    IF cells = <<>> THEN 0 ELSE Head(cells)[1] + SumCells(Tail(cells))

CellValues(cells) == {cells[i][1] : i \in 1..Len(cells)}

MinCells(cells) == CHOOSE v \in CellValues(cells) : \A w \in CellValues(cells) : v <= w

MaxCells(cells) == CHOOSE v \in CellValues(cells) : \A w \in CellValues(cells) : v >= w

CountOf(v, cells) == Cardinality({i \in 1..Len(cells) : cells[i] = <<v>>})

IsNumeric(t) == t \in {"int64", "float64"}

-----------------------------------------------------------------------------
(* The five tools.  A result is [kind, text, data]: kind is the Python type *)
(* of the returned value ("str", "dict", "float") or "raise"; text is the   *)
(* string when kind is "str"; data is the mapping or the number otherwise,  *)
(* as a sequence of <<key, integer>> pairs.  The statistics pandas computes *)
(* are kept as exact integers: a mean is the pair sum, count; a Pearson     *)
(* coefficient is cov / sqrt(varx * vary) given by its three integers.      *)

StrResult(t) == [kind |-> "str", text |-> t, data |-> <<>>]

DataResult(k, d) == [kind |-> k, text |-> NoText, data |-> d]

Raised == [kind |-> "raise", text |-> NoText, data |-> <<>>]

Column(name) == df.cells[ColIndex(name, df)]

DType(name) == df.dtype[ColIndex(name, df)]

NullCount(cells) == Len(cells) - Len(NonNull(cells))

NUnique(cells) == Cardinality(CellValues(NonNull(cells)))

ValueCounts(cells) ==
    {<<v, CountOf(v, cells)>> : v \in CellValues(NonNull(cells))}

SeriesDescribe(name) ==
    LET c == NonNull(Column(name))
    IN  IF IsNumeric(DType(name))
        THEN IF c = <<>>
             THEN << <<<<"count">>, 0>> >>
             ELSE << <<<<"count">>, Len(c)>>, <<<<"sum">>, SumCells(c)>>,
                     <<<<"min">>, MinCells(c)>>, <<<<"max">>, MaxCells(c)>> >>
        ELSE << <<<<"count">>, Len(c)>>, <<<<"unique">>, NUnique(c)>> >>

DescribedColumns ==
    LET num == SelectSeq(df.columns, LAMBDA n : IsNumeric(DType(n)))
    IN  IF num = <<>> THEN df.columns ELSE num

RECURSIVE FrameToString(_)
FrameToString(names) ==
    IF names = <<>> THEN NoText
    ELSE Head(names) \o <<" ", ToString(SeriesDescribe(Head(names))), "\n">>
         \o FrameToString(Tail(names))

describe_data == StrResult(FrameToString(DescribedColumns))

get_column_info(column_name) ==
    IF InColumns(column_name, df)
    THEN StrResult(<<"Column '">> \o column_name \o <<"':\n">>
                   \o <<"Type: ", DType(column_name), "\n">>
                   \o <<"Unique values: ", ToString(NUnique(Column(column_name))), "\n">>
                   \o <<"Top 5 values: ", ToString(ValueCounts(Column(column_name)))>>)
    ELSE StrResult(<<"Column '">> \o column_name \o <<"' not found in the dataframe.">>)

PairIndexes(x, y) == {i \in 1..Len(x) : x[i] # <<>> /\ y[i] # <<>>}

RECURSIVE SumOver(_, _)
SumOver(S, f) ==
    IF S = {} THEN 0
    ELSE LET i == CHOOSE j \in S : TRUE IN f[i] + SumOver(S \ {i}, f)

Corr(x, y) ==
    LET P   == PairIndexes(x, y)
        n   == Cardinality(P)
        sx  == SumOver(P, [i \in P |-> x[i][1]])
        sy  == SumOver(P, [i \in P |-> y[i][1]])
        sxy == SumOver(P, [i \in P |-> x[i][1] * y[i][1]])
        sxx == SumOver(P, [i \in P |-> x[i][1] * x[i][1]])
        syy == SumOver(P, [i \in P |-> y[i][1] * y[i][1]])
    IN  IF n < 2 \/ n * sxx = sx * sx \/ n * syy = sy * sy
        THEN DataResult("float", << <<<<"nan">>, 0>> >>)
        ELSE DataResult("float", << <<<<"cov">>, n * sxy - sx * sy>>,
                                    <<<<"varx">>, n * sxx - sx * sx>>,
                                    <<<<"vary">>, n * syy - sy * sy>> >>)

calculate_correlation_either(column1, column2) ==
    IF InColumns(column1, df) \/ InColumns(column2, df)
    THEN IF InColumns(column1, df) /\ InColumns(column2, df)
            /\ IsNumeric(DType(column1)) /\ IsNumeric(DType(column2))
         THEN Corr(Column(column1), Column(column2))
         ELSE Raised
    ELSE StrResult(<<"One or both columns not found in the dataframe.">>)

calculate_correlation(column1, column2) ==
    IF InColumns(column1, df) /\ InColumns(column2, df)
    THEN IF IsNumeric(DType(column1)) /\ IsNumeric(DType(column2))
         THEN Corr(Column(column1), Column(column2))
         ELSE Raised
    ELSE StrResult(<<"One or both columns not found in the dataframe.">>)

get_missing_values_counting ==
    DataResult("dict", [i \in 1..Len(df.columns) |->
                            <<df.columns[i], NullCount(df.cells[i]) + turns_taken>>])

get_missing_values ==
    DataResult("dict", [i \in 1..Len(df.columns) |->
                            <<df.columns[i], NullCount(df.cells[i])>>])

generate_summary_stats(column_name) ==
    IF InColumns(column_name, df)
    THEN DataResult("dict", SeriesDescribe(column_name))
    ELSE StrResult(<<"Column '">> \o column_name \o <<"' not found in the dataframe.">>)

(* The calls the responder can ask for, and their dispatch by name. *)

NoCall == [tool |-> "none", args |-> <<>>]

ToolCalls ==
    {[tool |-> "describe_data", args |-> <<>>],
     [tool |-> "get_missing_values", args |-> <<>>]}
    \cup {[tool |-> t, args |-> <<c>>] :
            t \in {"get_column_info", "generate_summary_stats"}, c \in ColumnNames}
    \cup {[tool |-> "calculate_correlation", args |-> p] : p \in ColumnPairs}

execute_function(call) ==
    CASE call.tool = "describe_data" -> describe_data
      [] call.tool = "get_column_info" -> get_column_info(call.args[1])
      [] call.tool = "calculate_correlation" ->
             calculate_correlation(call.args[1], call.args[2])
      [] call.tool = "get_missing_values" -> get_missing_values
      [] call.tool = "generate_summary_stats" -> generate_summary_stats(call.args[1])

-----------------------------------------------------------------------------
(* load_data.  A read of the file ends "ok", "empty" (EmptyDataError) or   *)
(* "error" (any other exception); which one is the file system's choice.   *)
(* A sleep is logged in tenths of a second.                                *)

ReadOutcomes == {"ok", "empty", "error"}

BackoffUnit == 5

Read(outcome) == [ev |-> outcome, n |-> 0]

Slept(n) == [ev |-> "sleep", n |-> n]

sleep_delay_from_zero(a) == BackoffUnit * a

sleep_delay(a) == BackoffUnit * (a + 1)

after_empty_one_fewer(a) == IF a < 1 THEN "sleep" ELSE "raise"

after_empty(a) == IF a < 2 THEN "sleep" ELSE "raise"

(* line 11: the first read, outside the loop *)
LoadFirstRead(outcome) ==
    /\ pc = "load_first"
    /\ load_log' = <<Read(outcome)>>
    /\ attempt' = 0
    /\ CASE outcome = "ok" -> pc' = "load_returned" /\ load_result' = "ok"
         [] outcome = "empty" -> pc' = "load_retry" /\ load_result' = "running"
         [] outcome = "error" -> pc' = "load_raised" /\ load_result' = "raised"
    /\ UNCHANGED <<has_file, uploaded, user_query, load_no, df, session_keys,
                   conversation_history, append_calls, hist_at_submit, prompt,
                   chat_calls, turns_taken, last_msg, tool_results, summary,
                   chat_ready, ui>>

(* lines 15-23: one pass of the loop over range(3) *)
LoadRetryRead(outcome) ==
    /\ pc = "load_retry"
    /\ attempt \in 0..2
    /\ CASE outcome = "ok" ->
                /\ load_log' = Append(load_log, Read(outcome))
                /\ attempt' = attempt
                /\ pc' = "load_returned" /\ load_result' = "ok"
         [] outcome = "empty" /\ after_empty(attempt) = "sleep" ->
                /\ load_log' = load_log \o <<Read(outcome), Slept(sleep_delay(attempt))>>
                /\ attempt' = attempt + 1
                /\ UNCHANGED <<pc, load_result>>
         [] outcome = "empty" /\ after_empty(attempt) = "raise" ->
                /\ load_log' = Append(load_log, Read(outcome))
                /\ attempt' = attempt
                /\ pc' = "load_raised" /\ load_result' = "raised"
         [] outcome = "error" ->
                /\ load_log' = Append(load_log, Read(outcome))
                /\ attempt' = attempt
                /\ pc' = "load_raised" /\ load_result' = "raised"
    /\ UNCHANGED <<has_file, uploaded, user_query, load_no, df, session_keys,
                   conversation_history, append_calls, hist_at_submit, prompt,
                   chat_calls, turns_taken, last_msg, tool_results, summary,
                   chat_ready, ui>>

(* lines 32 and 43: df = load_data(...) *)
LoadReturns ==
    /\ pc = "load_returned"
    /\ df' = uploaded
    /\ load_log' = <<>>
    /\ load_result' = "none"
    /\ attempt' = 0
    /\ IF load_no = 1
       THEN pc' = "load_first" /\ load_no' = 2
       ELSE pc' = "body" /\ load_no' = 1
    /\ UNCHANGED <<has_file, uploaded, user_query, session_keys,
                   conversation_history, append_calls, hist_at_submit, prompt,
                   chat_calls, turns_taken, last_msg, tool_results, summary,
                   chat_ready, ui>>

(* the exception leaves load_data and ends the run *)
LoadRaises ==
    /\ pc = "load_raised"
    /\ df' = NoData
    /\ load_log' = <<>>
    /\ load_result' = "none"
    /\ attempt' = 0
    /\ load_no' = 1
    /\ pc' = "idle"
    /\ chat_ready' = FALSE
    /\ ui' = "load_error"
    /\ UNCHANGED <<has_file, uploaded, user_query, session_keys,
                   conversation_history, append_calls, hist_at_submit, prompt,
                   chat_calls, turns_taken, last_msg, tool_results, summary>>

-----------------------------------------------------------------------------
(* The conversation history and the prompt *)

init_history_always == <<>>

(* lines 124-125, the value of st.session_state.conversation_history after them *)
init_history ==
    IF "conversation_history" \notin session_keys THEN <<>>
    ELSE conversation_history

add_to_history_twice(history, role, content) ==
    history \o <<[role |-> role, content |-> content],
                 [role |-> role, content |-> content]>>

(* add_to_history appends to the list it is given: the session's history *)
add_to_history(history, role, content) ==
    Append(history, [role |-> role, content |-> content])

FormatTurn_no_role(msg) == msg.content

FormatTurn(msg) == <<msg.role, ": ">> \o msg.content

RECURSIVE str_join(_, _)
str_join(sep, parts) ==
    IF parts = <<>> THEN NoText
    ELSE IF Len(parts) = 1 THEN Head(parts)
    ELSE Head(parts) \o sep \o str_join(sep, Tail(parts))

analyze_data_prompt(history, query) ==
    <<"Conversation history:\n">>
    \o str_join(<<"\n">>, [i \in 1..Len(history) |-> FormatTurn(history[i])])
    \o <<"\n\nAnalyze the following data based on this query: ">>
    \o query

-----------------------------------------------------------------------------
(* What the user and the responder can say *)

Queries == {<<"h", "i">>, <<"s", "a", "y", " ">> \o TERMINATE}

Summaries == {<<"4", "2">>, <<"n", "o">>}

Contents(q) ==
    {<<"o", "k">>,
     NoText,
     TERMINATE,
     <<"D", "o", "n", "e", ".", " ">> \o TERMINATE \o <<"!">>,
     <<"t", "e", "r", "m", "i", "n", "a", "t", "e">>,
     <<"T", "E", "R", "M", "I", "N", "A", "T">>,
     <<"Y", "o", "u", ":", " ">> \o q}

NoMsg == [has_content |-> FALSE, content |-> NoText, tool_call |-> NoCall]

ResponderMessages(q) ==
    {[has_content |-> TRUE, content |-> c, tool_call |-> NoCall] : c \in Contents(q)}
    \cup {[has_content |-> FALSE, content |-> NoText, tool_call |-> t] :
            t \in ToolCalls \cup {NoCall}}
    \cup {[has_content |-> TRUE, content |-> <<"o", "k">>,
             tool_call |-> [tool |-> "get_missing_values", args |-> <<>>]],
            [has_content |-> TRUE, content |-> TERMINATE,
             tool_call |-> [tool |-> "describe_data", args |-> <<>>]]}

is_termination_msg_exact(msg) ==
    msg.has_content /\ msg.content = TERMINATE

is_termination_msg(msg) ==
    msg.has_content /\ str_contains(msg.content, TERMINATE)

-----------------------------------------------------------------------------
(* The script *)

Init ==
    /\ pc = "run"
    /\ has_file = FALSE
    /\ uploaded = NoData
    /\ user_query = NoText
    /\ load_no = 1
    /\ attempt = 0
    /\ load_log = <<>>
    /\ load_result = "none"
    /\ df = NoData
    /\ session_keys = {}
    /\ conversation_history = <<>>
    /\ append_calls = <<>>
    /\ hist_at_submit = <<>>
    /\ prompt = NoText
    /\ chat_calls = 0
    /\ turns_taken = 0
    /\ last_msg = NoMsg
    /\ tool_results = {}
    /\ summary = NoText
    /\ chat_ready = FALSE
    /\ ui = "none"

UserTurns == Len(SelectSeq(conversation_history, LAMBDA m : m.role = "user"))

(* UI events: each makes Streamlit run the script again *)

Upload(d) ==
    /\ pc = "idle"
    /\ has_file' = TRUE
    /\ uploaded' = d
    /\ user_query' = NoText
    /\ pc' = "run"
    /\ UNCHANGED <<load_no, attempt, load_log, load_result, df, session_keys,
                   conversation_history, append_calls, hist_at_submit, prompt,
                   chat_calls, turns_taken, last_msg, tool_results, summary,
                   chat_ready, ui>>

RemoveFile ==
    /\ pc = "idle"
    /\ has_file
    /\ has_file' = FALSE
    /\ uploaded' = NoData
    /\ user_query' = NoText
    /\ pc' = "run"
    /\ UNCHANGED <<load_no, attempt, load_log, load_result, df, session_keys,
                   conversation_history, append_calls, hist_at_submit, prompt,
                   chat_calls, turns_taken, last_msg, tool_results, summary,
                   chat_ready, ui>>

Submit(q) ==
    /\ pc = "idle"
    /\ chat_ready
    /\ UserTurns < MaxQueries
    /\ user_query' = q
    /\ hist_at_submit' = conversation_history
    /\ chat_calls' = 0
    /\ summary' = NoText
    /\ pc' = "run"
    /\ UNCHANGED <<has_file, uploaded, load_no, attempt, load_log, load_result,
                   df, session_keys, conversation_history, append_calls, prompt,
                   turns_taken, last_msg, tool_results, chat_ready, ui>>

(* lines 25-35: no file, warn and stop; else call load_data on the copy *)
ScriptStart ==
    /\ pc = "run"
    /\ IF has_file
       THEN /\ pc' = "load_first"
            /\ load_no' = 1
            /\ UNCHANGED <<df, chat_ready, ui>>
       ELSE /\ pc' = "idle"
            /\ df' = NoData
            /\ chat_ready' = FALSE
            /\ ui' = "warning"
            /\ UNCHANGED load_no
    /\ UNCHANGED <<has_file, uploaded, user_query, attempt, load_log,
                   load_result, session_keys, conversation_history,
                   append_calls, hist_at_submit, prompt, chat_calls,
                   turns_taken, last_msg, tool_results, summary>>

(* lines 45-141 of a run with no query *)
FinishRun ==
    /\ pc = "body"
    /\ user_query = NoText
    /\ session_keys' = session_keys \cup {"conversation_history"}
    /\ conversation_history' = init_history
    /\ chat_ready' = TRUE
    /\ ui' = "ready"
    /\ pc' = "idle"
    /\ UNCHANGED <<has_file, uploaded, user_query, load_no, attempt, load_log,
                   load_result, df, append_calls, hist_at_submit, prompt, chat_calls,
                   turns_taken, last_msg, tool_results, summary>>

(* lines 45-155 of a run with a query, up to the call of initiate_chat *)
StartQuery ==
    /\ pc = "body"
    /\ user_query # NoText
    /\ session_keys' = session_keys \cup {"conversation_history"}
    /\ conversation_history' = add_to_history(init_history, "user", user_query)
    /\ append_calls' = Append(append_calls, <<"user", user_query>>)
    /\ prompt' = analyze_data_prompt(conversation_history', user_query)
    /\ chat_calls' = chat_calls + 1
    /\ turns_taken' = 0
    /\ last_msg' = NoMsg
    /\ tool_results' = {}
    /\ chat_ready' = TRUE
    /\ ui' = "running"
    /\ pc' = "exchanging"
    /\ UNCHANGED <<has_file, uploaded, user_query, load_no, attempt, load_log,
                   load_result, df, hist_at_submit, summary>>

(* The invocations of an exchange: one entry per (call, df, result), with  *)
(* the number n of times the call gave that result on that dataframe.      *)
Record(S, call, d, result) ==
    LET same == {r \in S : r.call = call /\ r.df = d /\ r.result = result}
    IN  IF same = {}
        THEN S \cup {[call |-> call, df |-> d, result |-> result, n |-> 1]}
        ELSE (S \ same) \cup {[r EXCEPT !.n = @ + 1] : r \in same}

(* The exchange inside initiate_chat: the requester receives a message,    *)
(* tests is_termination_msg, and otherwise runs the tool the message asks  *)
(* for (human_input_mode NEVER: without asking) and the exchange goes on.  *)
Receive(msg) ==
    /\ pc = "exchanging"
    /\ last_msg' = msg
    /\ turns_taken' = turns_taken + 1
    /\ IF is_termination_msg(msg)
       THEN /\ pc' = "terminated"
            /\ \E s \in Summaries : summary' = s
            /\ UNCHANGED tool_results
       ELSE /\ turns_taken < MaxTurns
            /\ pc' = "exchanging"
            /\ tool_results' =
                 IF msg.tool_call = NoCall THEN tool_results
                 ELSE Record(tool_results, msg.tool_call, df,
                             execute_function(msg.tool_call))
            /\ UNCHANGED summary
    /\ UNCHANGED <<has_file, uploaded, user_query, load_no, attempt, load_log,
                   load_result, df, session_keys, conversation_history,
                   append_calls, hist_at_submit, prompt, chat_calls,
                   chat_ready, ui>>

ExchangeError_caught ==
    /\ pc = "exchanging"
    /\ pc' = "idle"
    /\ ui' = "exchange_error"
    /\ conversation_history' =
         Append(conversation_history, [role |-> "assistant", content |-> <<"error">>])
    /\ append_calls' = Append(append_calls, <<"assistant", <<"error">> >>)
    /\ prompt' = NoText
    /\ last_msg' = NoMsg
    /\ tool_results' = {}
    /\ turns_taken' = 0
    /\ UNCHANGED <<has_file, uploaded, user_query, load_no, attempt, load_log,
                   load_result, df, session_keys, hist_at_submit, chat_calls,
                   summary, chat_ready>>

(* initiate_chat raises: nothing catches it, the run ends at line 155 *)
ExchangeError ==
    /\ pc = "exchanging"
    /\ pc' = "idle"
    /\ ui' = "exchange_error"
    /\ prompt' = NoText
    /\ last_msg' = NoMsg
    /\ tool_results' = {}
    /\ turns_taken' = 0
    /\ UNCHANGED <<has_file, uploaded, user_query, load_no, attempt, load_log,
                   load_result, df, session_keys, conversation_history,
                   append_calls, hist_at_submit, chat_calls, summary,
                   chat_ready>>

(* lines 156-164: the summary is written and added to the history *)
ReturnSummary ==
    /\ pc = "terminated"
    /\ conversation_history' = add_to_history(conversation_history, "assistant", summary)
    /\ append_calls' = Append(append_calls, <<"assistant", summary>>)
    /\ pc' = "idle"
    /\ ui' = "answered"
    /\ prompt' = NoText
    /\ last_msg' = NoMsg
    /\ tool_results' = {}
    /\ turns_taken' = 0
    /\ UNCHANGED <<has_file, uploaded, user_query, load_no, attempt, load_log,
                   load_result, df, session_keys, hist_at_submit, chat_calls,
                   summary, chat_ready>>

Next ==
    \/ \E d \in Datasets : Upload(d)
    \/ RemoveFile
    \/ \E q \in Queries : Submit(q)
    \/ ScriptStart
    \/ \E o \in ReadOutcomes : LoadFirstRead(o)
    \/ \E o \in ReadOutcomes : LoadRetryRead(o)
    \/ LoadReturns
    \/ LoadRaises
    \/ FinishRun
    \/ StartQuery
    \/ \E m \in ResponderMessages(user_query) : Receive(m)
    \/ ExchangeError
    \/ ReturnSummary

Spec == Init /\ [][Next]_vars

-----------------------------------------------------------------------------
(* Properties *)

LoadReads == SelectSeq(load_log, LAMBDA e : e.ev # "sleep")

ReadEvents == [i \in 1..Len(LoadReads) |-> LoadReads[i].ev]

RECURSIVE TotalSlept(_)
TotalSlept(log) ==
    IF log = <<>> THEN 0 ELSE Head(log).n + TotalSlept(Tail(log))

AllEmpty == \A i \in 1..Len(ReadEvents) : ReadEvents[i] = "empty"

TwoEmptyThenOk ==
    load_result = "ok" /\ ReadEvents = <<"empty", "empty", "ok">>

(* C1, as claimed: when load_data's first two reads are empty and the      *)
(* next succeeds, it returns on the third read having slept at least       *)
(* 1 + 2 = 3 backoff units before it.                                      *)
C1_ThreeUnits ==
    TwoEmptyThenOk =>
        Len(ReadEvents) = 3 /\ TotalSlept(load_log) >= 3 * BackoffUnit

(* C1, amended: when load_data's first two reads are empty and the next    *)
(* succeeds, it returns on the third read, and the only wait before that   *)
(* read is one backoff unit, slept between the second and the third read.  *)
C1_OneUnit ==
    TwoEmptyThenOk =>
        load_log = <<Read("empty"), Read("empty"), Slept(BackoffUnit), Read("ok")>>

C1_Witness == TwoEmptyThenOk

(* C2, as claimed: when every read is empty, load_data reads at most 3     *)
(* times, sleeps one unit before the first retry and two before the        *)
(* second, and then raises.                                                *)
C2_ThreeReads ==
    AllEmpty =>
        /\ Len(ReadEvents) <= 3
        /\ load_result = "raised" =>
             load_log = <<Read("empty"), Slept(BackoffUnit), Read("empty"),
                          Slept(2 * BackoffUnit), Read("empty")>>

(* C2, amended: when every read is empty, load_data reads at most 4 times  *)
(* (the first read and three retries), with no wait before the first       *)
(* retry, one unit before the second and two units before the third, and   *)
(* raises right after the fourth read; a call that returns has set the     *)
(* dataset, and a call that raises ends the run with the error shown.      *)
C2_FourReads ==
    /\ AllEmpty =>
        /\ Len(ReadEvents) <= 4
        /\ Len(ReadEvents) = 4 => load_result = "raised"
        /\ load_result = "raised" =>
             load_log = <<Read("empty"), Read("empty"), Slept(BackoffUnit),
                          Read("empty"), Slept(2 * BackoffUnit), Read("empty")>>
    /\ load_result = "ok" => uploaded \in Datasets /\ ReadEvents[Len(ReadEvents)] = "ok"
    /\ Len(ReadEvents) <= 4

C2_Witness == AllEmpty /\ load_result = "raised"

IsPrefix(s, t) == Len(s) <= Len(t) /\ SubSeq(t, 1, Len(s)) = s

(* C3: the history holds exactly the calls of add_to_history, in call      *)
(* order, and every step leaves the earlier history as a prefix of the     *)
(* later one: no turn is removed, reordered or edited.                     *)
C3_AppendOnly ==
    [][/\ IsPrefix(conversation_history, conversation_history')
       /\ Len(conversation_history') = Len(append_calls')
       /\ \A i \in 1..Len(append_calls') :
             /\ conversation_history'[i].role = append_calls'[i][1]
             /\ conversation_history'[i].content = append_calls'[i][2]]_vars

C3_Witness ==
    /\ Len(append_calls) >= 3
    /\ Len(conversation_history) = Len(append_calls)

HasTerminate(c) ==
    \E i \in 1..Len(c) :
        /\ i + Len(TERMINATE) - 1 <= Len(c)
        /\ \A k \in 1..Len(TERMINATE) : c[i + k - 1] = TERMINATE[k]

UserTurn == [role |-> "user", content |-> user_query]

(* C4: a message containing TERMINATE ends the exchange, and the step that *)
(* follows appends the returned summary as exactly one assistant turn,     *)
(* right after the query's user turn.                                      *)
C4_SummaryAppended ==
    [][/\ (pc = "exchanging" /\ last_msg'.has_content /\ HasTerminate(last_msg'.content))
            => pc' = "terminated"
       /\ pc = "terminated" =>
            /\ conversation_history = Append(hist_at_submit, UserTurn)
            /\ conversation_history' =
                 hist_at_submit \o <<UserTurn, [role |-> "assistant", content |-> summary]>>
            /\ pc' = "idle"]_vars

C4_Witness ==
    /\ pc = "idle"
    /\ ui = "answered"
    /\ Len(conversation_history) = 4

(* C5: the exchange is terminated exactly by a message that has content    *)
(* containing the literal TERMINATE anywhere in it; a message without      *)
(* content, or whose content lacks the literal, leaves it running.         *)
C5_TerminationExact ==
    /\ pc = "terminated" =>
         last_msg.has_content /\ HasTerminate(last_msg.content)
    /\ (pc = "exchanging" /\ turns_taken > 0) =>
         ~(last_msg.has_content /\ HasTerminate(last_msg.content))
    /\ (pc \in {"exchanging", "terminated"} /\ ~last_msg.has_content) =>
         pc = "exchanging"

C5_Witness ==
    /\ pc = "terminated"
    /\ last_msg.content = <<"Y", "o", "u", ":", " ">> \o user_query
    /\ last_msg.content # TERMINATE

Lines(h) == [i \in 1..Len(h) |-> <<h[i].role, ": ">> \o h[i].content]

RECURSIVE Flat(_, _)
Flat(lines, k) ==
    IF k = 0 THEN <<>>
    ELSE IF k = 1 THEN lines[1]
    ELSE Flat(lines, k - 1) \o <<"\n">> \o lines[k]

Instruction(h, q) ==
    <<"Conversation history:\n">> \o Flat(Lines(h), Len(h))
    \o <<"\n\nAnalyze the following data based on this query: ">> \o q

(* C6, as claimed: the instruction is the role-prefixed concatenation of   *)
(* exactly the turns that existed before the query was submitted,          *)
(* followed by the query.                                                  *)
C6_PriorTurnsOnly ==
    pc = "exchanging" => prompt = Instruction(hist_at_submit, user_query)

(* C6, amended: the instruction is the role-prefixed concatenation, in log *)
(* order, of the turns that existed before the query was submitted and of  *)
(* the query's own user turn, which is appended before the instruction is  *)
(* built, followed by the query.                                           *)
C6_WithOwnTurn ==
    pc = "exchanging" =>
        prompt = Instruction(Append(hist_at_submit, UserTurn), user_query)

C6_Witness ==
    /\ pc = "exchanging"
    /\ Len(hist_at_submit) >= 2
    /\ hist_at_submit[1].content # user_query

(* C7: when the exchange raises, initiate_chat has been called once for    *)
(* the query, no assistant turn is added for it, and the turns that were   *)
(* in the history before the query are all there, unchanged and in place;  *)
(* the chat input is still there for a retry.                              *)
C7_FailureKeepsHistory ==
    (pc = "idle" /\ ui = "exchange_error") =>
        /\ chat_calls = 1
        /\ conversation_history = Append(hist_at_submit, UserTurn)
        /\ chat_ready

C7_Witness ==
    /\ pc = "idle"
    /\ ui = "exchange_error"
    /\ Len(hist_at_submit) >= 2

NotFoundMarkers ==
    {"' not found in the dataframe.",
     "One or both columns not found in the dataframe."}

HasMarker(text) == \E i \in 1..Len(text) : text[i] \in NotFoundMarkers

HasName(text, name) ==
    \E i \in 1..Len(text) :
        /\ i + Len(name) - 1 <= Len(text)
        /\ \A k \in 1..Len(name) : text[i + k - 1] = name[k]

Missing(name, d) == \A i \in 1..Len(d.columns) : d.columns[i] # name

(* C8: for a column name that is not a column of the dataframe,            *)
(* get_column_info and generate_summary_stats return a string holding the  *)
(* name and a not-found marker, and calculate_correlation returns a        *)
(* not-found string when either of its columns is missing.                 *)
C8_NotFound ==
    \A r \in tool_results :
        /\ (r.call.tool \in {"get_column_info", "generate_summary_stats"}
              /\ Missing(r.call.args[1], r.df)) =>
             /\ r.result.kind = "str"
             /\ HasName(r.result.text, r.call.args[1])
             /\ HasMarker(r.result.text)
        /\ (r.call.tool = "calculate_correlation"
              /\ (Missing(r.call.args[1], r.df) \/ Missing(r.call.args[2], r.df))) =>
             /\ r.result.kind = "str"
             /\ HasMarker(r.result.text)

C8_Witness ==
    /\ \E r \in tool_results :
          r.call.tool = "get_column_info" /\ Missing(r.call.args[1], r.df)
    /\ \E r \in tool_results :
          /\ r.call.tool = "calculate_correlation"
          /\ ~Missing(r.call.args[1], r.df)
          /\ Missing(r.call.args[2], r.df)

(* C9: a step of the exchange, whatever tool it runs, leaves the dataframe *)
(* and the conversation history as they were, and a call repeated on the   *)
(* same dataframe gives the result it gave before.                         *)
C9_ToolsPure ==
    [][(pc = "exchanging" /\ pc' \in {"exchanging", "terminated"}) =>
          /\ df' = df
          /\ uploaded' = uploaded
          /\ conversation_history' = conversation_history
          /\ \A r1, r2 \in tool_results' :
                (r1.call = r2.call /\ r1.df = r2.df) => r1.result = r2.result]_vars

C9_Witness ==
    \E r \in tool_results : r.n >= 2 /\ r.call.tool = "get_missing_values"

Roles == [i \in 1..Len(conversation_history) |-> conversation_history[i].role]

AssistantTurns == Len(SelectSeq(conversation_history, LAMBDA m : m.role = "assistant"))

(* C10, as claimed: with no query in flight, the history alternates user,  *)
(* assistant, user, assistant, ... from a user turn, and its length is     *)
(* even, also after queries whose exchange failed.                         *)
C10_Alternates ==
    pc = "idle" =>
        /\ Len(conversation_history) % 2 = 0
        /\ \A i \in 1..Len(conversation_history) :
              Roles[i] = IF i % 2 = 1 THEN "user" ELSE "assistant"

(* C10, amended: with no query in flight, the history starts with a user   *)
(* turn and every assistant turn comes right after a user turn; a user     *)
(* turn is followed by its assistant turn unless that query's exchange     *)
(* failed, so the history alternates with even length exactly when no      *)
(* user turn was left unanswered by a failed exchange.                     *)
C10_AnswersFollowQueries ==
    pc = "idle" =>
        /\ Len(conversation_history) > 0 => Roles[1] = "user"
        /\ \A i \in 1..Len(conversation_history) :
              Roles[i] = "assistant" => (i > 1 /\ Roles[i - 1] = "user")
        /\ (ui = "answered") =>
              Roles[Len(conversation_history)] = "assistant"
        /\ (ui = "exchange_error") =>
              Roles[Len(conversation_history)] = "user"
        /\ (UserTurns = AssistantTurns) <=>
              /\ Len(conversation_history) % 2 = 0
              /\ \A i \in 1..Len(conversation_history) :
                    Roles[i] = IF i % 2 = 1 THEN "user" ELSE "assistant"

C10_Witness ==
    /\ pc = "idle"
    /\ Roles = <<"user", "user", "assistant">>

====
